---------------------------- MODULE Spec2Model ----------------------------
(***************************************************************************)
(* Model of examples/cpp_external_dependencies: the formatter library      *)
(* (format_lower_case, format_upper_case), the Logger class and the        *)
(* main() of main_repo that composes them.                                 *)
(*                                                                         *)
(* A text value (std::string) is a sequence of char codes 0..255.  A sink  *)
(* (std::ostream) is the sequence of chars written to it so far; the       *)
(* stream is taken to be in its good state with default formatting, as in  *)
(* main(), where it is std::cout.  std::endl is the char '\n' (the flush   *)
(* does not change what has been written).                                 *)
(*                                                                         *)
(* Three programs use the library: "app" is main() of main_repo, statement *)
(* by statement; "logging" is a caller that constructs Loggers on its      *)
(* sinks and calls info/warn/err with arbitrary messages; "formatting" is  *)
(* a caller that calls the two formatters with arbitrary text values under *)
(* whatever global locale the process has installed.                       *)
(***************************************************************************)
EXTENDS Integers, Sequences, FiniteSets

\* ------------------------------------------------------------------ bounds

\* Longest text value handed to a formatter by the "formatting" caller.
MaxLen == 2
\* Longest message handed to a Logger by the "logging" caller.
MaxMsgLen == 1
\* Number of Logger calls the "logging" caller makes.
MaxCalls == 2

\* Chars the formatting caller draws from: '\n' '!' '1' 'A' 'a' and the
\* Latin-1 letters 0xC9 (E acute) and 0xE9 (e acute).
Alphabet == {10, 33, 49, 65, 97, 201, 233}
\* Chars the logging caller draws from: '\n' and 'X'.
MsgAlphabet == {10, 88}

Texts == UNION {[1..n -> Alphabet] : n \in 0..MaxLen}
Msgs == UNION {[1..n -> MsgAlphabet] : n \in 0..MaxMsgLen}

\* ----------------------------------------------------------------- locales

\* The global locales a process may have installed: the classic "C" locale
\* (the default at program start) and a single-byte ISO-8859-1 locale.
Locales == {"C", "Latin1"}

\* std::tolower(c, loc) / std::toupper(c, loc): ctype<char> of the locale,
\* one char to one char.
tolower(c, loc) ==
    IF c \in 65..90 THEN c + 32
    ELSE IF loc = "Latin1" /\ c \in 192..222 /\ c # 215 THEN c + 32
    ELSE c

\* The letters' case bit cleared without asking whether c is a letter.
toupper_clearbit(c, loc) ==
    IF (c \div 32) % 2 = 1 THEN c - 32 ELSE c

\* The case bit flipped on every letter, upper case ones included.
toupper_flip(c, loc) ==
    IF c \in 97..122 THEN c - 32
    ELSE IF c \in 65..90 THEN c + 32
    ELSE c

toupper(c, loc) ==
    IF c \in 97..122 THEN c - 32
    ELSE IF loc = "Latin1" /\ c \in 224..254 /\ c # 247 THEN c - 32
    ELSE c

\* -------------------------------------------------------------- formatters

\* The loop of format_lower_case: i runs over 0..length-1 (value[i] is
\* value[i + 1] here), ss is the stringstream's content so far.
RECURSIVE lower_loop(_, _, _, _)
lower_loop(value, i, ss, loc) ==
    IF i < Len(value)
    THEN lower_loop(value, i + 1, Append(ss, tolower(value[i + 1], loc)), loc)
    ELSE ss

\* The loop started at index 1: the first char is never written.
format_lower_case_from1(value, loc) == lower_loop(value, 1, <<>>, loc)

format_lower_case(value, loc) == lower_loop(value, 0, <<>>, loc)

RECURSIVE upper_loop(_, _, _, _)
upper_loop(value, i, ss, loc) ==
    IF i < Len(value)
    THEN upper_loop(value, i + 1, Append(ss, toupper(value[i + 1], loc)), loc)
    ELSE ss

\* Only the first char is mapped, the rest is copied (a capitalise).
format_upper_case_first(value, loc) ==
    IF value = <<>> THEN <<>>
    ELSE <<toupper(value[1], loc)>> \o Tail(value)

format_upper_case(value, loc) == upper_loop(value, 0, <<>>, loc)

\* ------------------------------------------------------------------- state

Sinks == {"cout", "oss"}
Loggers == {"logger", "logger2"}
NoSink == "null"
Levels == {"Info", "Warn", "Err"}

VARIABLES
    prog,           \* the program that runs: "app", "logging" or "formatting"
    pc,             \* app: the statement of main() to run next
    exit,           \* app: <<>> while running, <<code>> once main returned
    sink,           \* per sink, the chars written to it so far
    _log,           \* per Logger, the sink its _log points to (NoSink: not constructed)
    ctorArg,        \* history: per Logger, the sink its constructor was given
    globalLocale,   \* the process-wide std::locale
    ret,            \* the last formatter call: function, argument, locale read, result
    trace,          \* history: every write, in order (who, level, message, sink)
    before          \* history: sink as it was before the last write

vars == <<prog, pc, exit, sink, _log, ctorArg, globalLocale, ret, trace, before>>

NoCall == [fn |-> "none", arg |-> <<>>, loc |-> "C", result |-> <<>>, id |-> 0]

Init ==
    /\ prog \in {"app", "logging", "formatting"}
    /\ pc = IF prog = "app" THEN "L12" ELSE "caller"
    /\ exit = <<>>
    /\ sink = [s \in Sinks |-> <<>>]
    /\ _log = [l \in Loggers |-> NoSink]
    /\ ctorArg = [l \in Loggers |-> NoSink]
    /\ globalLocale = "C"
    /\ ret = NoCall
    /\ trace = <<>>
    /\ before = sink

\* ------------------------------------------------------------------ Logger

\* os << text on sink s, by `who` (a Logger, or "caller" for a direct write).
Write(who, level, msg, s, text) ==
    /\ sink' = [sink EXCEPT ![s] = @ \o text]
    /\ trace' = Append(trace, [logger |-> who, level |-> level, msg |-> msg, sink |-> s])
    /\ before' = sink

\* Logger::Logger(std::ostream &str)
Logger_ctor(l, str) ==
    /\ _log' = [_log EXCEPT ![l] = str]
    /\ ctorArg' = [ctorArg EXCEPT ![l] = str]
    /\ UNCHANGED <<sink, globalLocale, ret, trace, before>>

\* info that writes to std::cout whatever the Logger was bound to.
Logger_info_cout(l, msg) ==
    /\ Write(l, "Info", msg, "cout", <<91, 73, 110, 102, 111, 93>> \o msg \o <<10>>)
    /\ UNCHANGED <<_log, ctorArg, globalLocale, ret>>

\* info that rewinds the stream before writing (seekp(0)): the line replaces
\* what the sink held.
Logger_info_rewind(l, msg) ==
    /\ sink' = [sink EXCEPT ![_log[l]] = <<91, 73, 110, 102, 111, 93>> \o msg \o <<10>>]
    /\ trace' = Append(trace, [logger |-> l, level |-> "Info", msg |-> msg, sink |-> _log[l]])
    /\ before' = sink
    /\ UNCHANGED <<_log, ctorArg, globalLocale, ret>>

\* void Logger::info(std::string msg): log() << "[Info]" << msg << std::endl
Logger_info(l, msg) ==
    /\ Write(l, "Info", msg, _log[l], <<91, 73, 110, 102, 111, 93>> \o msg \o <<10>>)
    /\ UNCHANGED <<_log, ctorArg, globalLocale, ret>>

\* warn without the std::endl.
Logger_warn_noendl(l, msg) ==
    /\ Write(l, "Warn", msg, _log[l], <<91, 87, 97, 114, 110, 93>> \o msg)
    /\ UNCHANGED <<_log, ctorArg, globalLocale, ret>>

\* void Logger::warn(std::string msg): log() << "[Warn]" << msg << std::endl
Logger_warn(l, msg) ==
    /\ Write(l, "Warn", msg, _log[l], <<91, 87, 97, 114, 110, 93>> \o msg \o <<10>>)
    /\ UNCHANGED <<_log, ctorArg, globalLocale, ret>>

\* err labelled "[Error]".
Logger_err_label(l, msg) ==
    /\ Write(l, "Err", msg, _log[l], <<91, 69, 114, 114, 111, 114, 93>> \o msg \o <<10>>)
    /\ UNCHANGED <<_log, ctorArg, globalLocale, ret>>

\* void Logger::err(std::string msg): log() << "[Err]" << msg << std::endl
Logger_err(l, msg) ==
    /\ Write(l, "Err", msg, _log[l], <<91, 69, 114, 114, 93>> \o msg \o <<10>>)
    /\ UNCHANGED <<_log, ctorArg, globalLocale, ret>>

\* --------------------------------------------------------- formatter calls

\* A formatter with a function-static stringstream: every call appends to
\* what the earlier calls left in it.
Call_static(fn, value) ==
    /\ ret' = [fn |-> fn, arg |-> value, loc |-> globalLocale,
               result |-> ret.result \o
                          (IF fn = "lower" THEN format_lower_case(value, globalLocale)
                                           ELSE format_upper_case(value, globalLocale)),
               id |-> 1 - ret.id]
    /\ UNCHANGED <<sink, _log, ctorArg, globalLocale, trace, before>>

\* One call format_lower_case(value) or format_upper_case(value): the
\* argument is passed by value, `std::locale loc;` copies the global locale,
\* the result is returned.  id tells one call from the next.
Call(fn, value) ==
    /\ ret' = [fn |-> fn, arg |-> value, loc |-> globalLocale,
               result |-> IF fn = "lower" THEN format_lower_case(value, globalLocale)
                                          ELSE format_upper_case(value, globalLocale),
               id |-> 1 - ret.id]
    /\ UNCHANGED <<sink, _log, ctorArg, globalLocale, trace, before>>

\* ------------------------------------------------------- program "logging"

Construct ==
    /\ prog = "logging"
    /\ \E l \in Loggers, s \in Sinks :
          /\ _log[l] = NoSink
          /\ Logger_ctor(l, s)
    /\ UNCHANGED <<prog, pc, exit>>

CallInfo ==
    /\ prog = "logging"
    /\ Len(trace) < MaxCalls
    /\ \E l \in Loggers, msg \in Msgs :
          /\ _log[l] # NoSink
          /\ Logger_info(l, msg)
    /\ UNCHANGED <<prog, pc, exit>>

CallWarn ==
    /\ prog = "logging"
    /\ Len(trace) < MaxCalls
    /\ \E l \in Loggers, msg \in Msgs :
          /\ _log[l] # NoSink
          /\ Logger_warn(l, msg)
    /\ UNCHANGED <<prog, pc, exit>>

CallErr ==
    /\ prog = "logging"
    /\ Len(trace) < MaxCalls
    /\ \E l \in Loggers, msg \in Msgs :
          /\ _log[l] # NoSink
          /\ Logger_err(l, msg)
    /\ UNCHANGED <<prog, pc, exit>>

\* ---------------------------------------------------- program "formatting"

\* The process installs another global locale (std::locale::global).
SetGlobalLocale ==
    /\ prog = "formatting"
    /\ \E loc \in Locales :
          /\ loc # globalLocale
          /\ globalLocale' = loc
    /\ UNCHANGED <<prog, pc, exit, sink, _log, ctorArg, ret, trace, before>>

CallLower ==
    /\ prog = "formatting"
    /\ \E value \in Texts : Call("lower", value)
    /\ UNCHANGED <<prog, pc, exit>>

CallUpper ==
    /\ prog = "formatting"
    /\ \E value \in Texts : Call("upper", value)
    /\ UNCHANGED <<prog, pc, exit>>

\* ----------------------------------------------------------- program "app"

Greeting == <<72, 101, 108, 108, 111, 32, 119, 111, 114, 108, 100>>
Msg16 == <<73, 39, 109, 32, 117, 115, 105, 110, 103, 32, 116, 104, 101, 32, 108,
           111, 103, 103, 101, 114, 32, 102, 114, 111, 109, 32, 116, 104, 101, 32,
           101, 120, 116, 101, 114, 110, 97, 108, 32, 114, 101, 112, 111>>
Msg17 == <<65, 110, 100, 32, 116, 104, 101, 114, 101, 32, 119, 101, 114, 101, 32,
           110, 111, 32, 101, 114, 114, 111, 114, 115, 33>>
Msg18 == <<87, 101, 108, 108, 44, 32, 101, 120, 99, 101, 112, 116, 32, 116, 104,
           105, 115, 32, 111, 110, 101, 46, 46, 46>>
Arg23 == <<71, 111, 69, 115, 32, 116, 111, 32, 85, 112, 112, 69, 114, 32, 67, 97,
           115, 101>>
Arg24 == <<71, 111, 69, 115, 32, 116, 111, 32, 76, 111, 87, 69, 82, 32, 67, 97,
           115, 101>>

\* std::cout << "Hello world" << std::endl;
Main12 ==
    /\ prog = "app" /\ pc = "L12"
    /\ Write("caller", "raw", Greeting \o <<10>>, "cout", Greeting \o <<10>>)
    /\ pc' = "L15"
    /\ UNCHANGED <<prog, exit, _log, ctorArg, globalLocale, ret>>

\* Logger *logger = new Logger(std::cout);
Main15 ==
    /\ prog = "app" /\ pc = "L15"
    /\ Logger_ctor("logger", "cout")
    /\ pc' = "L16"
    /\ UNCHANGED <<prog, exit>>

\* logger->info("I'm using the logger from the external repo");
Main16 ==
    /\ prog = "app" /\ pc = "L16"
    /\ Logger_info("logger", Msg16)
    /\ pc' = "L17"
    /\ UNCHANGED <<prog, exit>>

\* Line 17 calling err where the source calls warn.
Main17_err ==
    /\ prog = "app" /\ pc = "L17"
    /\ Logger_err("logger", Msg17)
    /\ pc' = "L18"
    /\ UNCHANGED <<prog, exit>>

\* logger->warn("And there were no errors!");
Main17 ==
    /\ prog = "app" /\ pc = "L17"
    /\ Logger_warn("logger", Msg17)
    /\ pc' = "L18"
    /\ UNCHANGED <<prog, exit>>

\* logger->err("Well, except this one...");
Main18 ==
    /\ prog = "app" /\ pc = "L18"
    /\ Logger_err("logger", Msg18)
    /\ pc' = "L20"
    /\ UNCHANGED <<prog, exit>>

\* std::cout << std::endl;
Main20 ==
    /\ prog = "app" /\ pc = "L20"
    /\ Write("caller", "raw", <<10>>, "cout", <<10>>)
    /\ pc' = "L23"
    /\ UNCHANGED <<prog, exit, _log, ctorArg, globalLocale, ret>>

\* logger->info(format_upper_case("GoEs to UppEr Case")): the argument is
\* evaluated first (L23), then info is called with the result (L23_info).
Main23 ==
    /\ prog = "app"
    /\ \/ /\ pc = "L23"
          /\ Call("upper", Arg23)
          /\ pc' = "L23_info"
       \/ /\ pc = "L23_info"
          /\ Logger_info("logger", ret.result)
          /\ pc' = "L24"
    /\ UNCHANGED <<prog, exit>>

\* logger->info(format_lower_case("GoEs to LoWER Case"));
Main24 ==
    /\ prog = "app"
    /\ \/ /\ pc = "L24"
          /\ Call("lower", Arg24)
          /\ pc' = "L24_info"
       \/ /\ pc = "L24_info"
          /\ Logger_info("logger", ret.result)
          /\ pc' = "L26"
    /\ UNCHANGED <<prog, exit>>

\* return 0;
Main26 ==
    /\ prog = "app" /\ pc = "L26"
    /\ exit' = <<0>>
    /\ pc' = "exited"
    /\ UNCHANGED <<prog, sink, _log, ctorArg, globalLocale, ret, trace, before>>

Next ==
    \/ Construct
    \/ CallInfo
    \/ CallWarn
    \/ CallErr
    \/ SetGlobalLocale
    \/ CallLower
    \/ CallUpper
    \/ Main12
    \/ Main15
    \/ Main16
    \/ Main17
    \/ Main18
    \/ Main20
    \/ Main23
    \/ Main24
    \/ Main26

Spec == Init /\ [][Next]_vars

\* ------------------------------------------------------- what the claims use

Last == trace[Len(trace)]
\* The last write was a call of a Logger method.
LastIsCall == trace # <<>> /\ Last.logger \in Loggers

\* The label each method is specified to write, and the line of one call.
Label(level) ==
    CASE level = "Info" -> <<91, 73, 110, 102, 111, 93>>     \* "[Info]"
      [] level = "Warn" -> <<91, 87, 97, 114, 110, 93>>      \* "[Warn]"
      [] level = "Err"  -> <<91, 69, 114, 114, 93>>          \* "[Err]"
Line(level, msg) == Label(level) \o msg \o <<10>>

IsPrefix(a, b) == Len(a) <= Len(b) /\ SubSeq(b, 1, Len(a)) = a
\* What b holds after its first n chars.
After(b, n) == SubSeq(b, n + 1, Len(b))
\* The newline-terminated lines of a text: one per newline char.
CountLines(s) == Cardinality({i \in DOMAIN s : s[i] = 10})

\* What the writes of tr put on sink s, one after the other: a direct write
\* puts its text, a Logger call the line of its level and message.
RECURSIVE Joined(_, _)
Joined(s, tr) ==
    IF tr = <<>> THEN <<>>
    ELSE LET e == tr[Len(tr)]
             rest == Joined(s, SubSeq(tr, 1, Len(tr) - 1))
         IN IF e.sink # s THEN rest
            ELSE IF e.logger \in Loggers THEN rest \o Line(e.level, e.msg)
            ELSE rest \o e.msg

IsAscii(v) == \A i \in DOMAIN v : v[i] < 128
\* Digits, punctuation and spaces of ASCII: the chars without case.
HasNoCase(c) == c \in (9..13) \cup (32..64) \cup (91..96) \cup (123..126)

\* ------------------------------------------------------------------ claims

\* C1: one call info(msg), warn(msg) or err(msg) on a Logger appends to the
\* sink the Logger is bound to exactly "[Info]" + msg + "\n", "[Warn]" + msg +
\* "\n" or "[Err]" + msg + "\n": what the sink held before, then that text,
\* and nothing else.
C1_ExactLine ==
    LastIsCall =>
        /\ Last.sink = _log[Last.logger]
        /\ sink[Last.sink] = before[Last.sink] \o Line(Last.level, Last.msg)

\* An err call with a message, on a sink that already held a line.
C1_Witness ==
    /\ LastIsCall
    /\ Last.level = "Err"
    /\ Last.msg = <<88>>
    /\ before[Last.sink] # <<>>

\* C2 as stated: whatever chars the message holds, one call adds exactly one
\* newline-terminated line to the sink.
C2_OneLinePerCall ==
    LastIsCall =>
        CountLines(sink[Last.sink]) = CountLines(before[Last.sink]) + 1

\* C2 amended: one call appends one contiguous text that ends with a newline,
\* and adds one newline-terminated line plus one for every newline char of
\* the message: exactly one line when the message holds no newline.
C2_LinesPerCall ==
    LastIsCall =>
        LET old == before[Last.sink]
            new == sink[Last.sink]
            added == After(new, Len(old))
        IN /\ IsPrefix(old, new)
           /\ added # <<>> /\ added[Len(added)] = 10
           /\ CountLines(new) = CountLines(old) + 1 + CountLines(Last.msg)
           /\ CountLines(Last.msg) = 0 => CountLines(new) = CountLines(old) + 1
           /\ \A s \in Sinks \ {Last.sink} : sink[s] = before[s]

\* A warn call whose message holds no newline, after an earlier line.
C2_Witness ==
    /\ LastIsCall
    /\ Last.level = "Warn"
    /\ Last.msg # <<>> /\ CountLines(Last.msg) = 0
    /\ CountLines(before[Last.sink]) = 1

\* C3: after any sequence of calls, each sink holds what it held before the
\* first call followed by the calls' lines in the order the calls were made,
\* each line depending on its own call's level and message only.
C3_CallOrder ==
    \A s \in Sinks : sink[s] = Joined(s, trace)

\* main() after the greeting and info, warn, err in that order.
C3_Witness ==
    /\ prog = "app" /\ pc = "L20"
    /\ Len(trace) = 4
    /\ <<trace[2].level, trace[3].level, trace[4].level>> = <<"Info", "Warn", "Err">>

\* The transcript main() is specified to write.
Expected ==
    <<72, 101, 108, 108, 111, 32, 119, 111, 114, 108, 100, 10>>          \* Hello world
    \o <<91, 73, 110, 102, 111, 93, 73, 39, 109, 32, 117, 115, 105, 110, 103, 32,
         116, 104, 101, 32, 108, 111, 103, 103, 101, 114, 32, 102, 114, 111, 109,
         32, 116, 104, 101, 32, 101, 120, 116, 101, 114, 110, 97, 108, 32, 114,
         101, 112, 111, 10>>                \* [Info]I'm using the logger from ...
    \o <<91, 87, 97, 114, 110, 93, 65, 110, 100, 32, 116, 104, 101, 114, 101, 32,
         119, 101, 114, 101, 32, 110, 111, 32, 101, 114, 114, 111, 114, 115, 33,
         10>>                               \* [Warn]And there were no errors!
    \o <<91, 69, 114, 114, 93, 87, 101, 108, 108, 44, 32, 101, 120, 99, 101, 112,
         116, 32, 116, 104, 105, 115, 32, 111, 110, 101, 46, 46, 46, 10>>
                                            \* [Err]Well, except this one...
    \o <<10>>                               \* the empty line
    \o <<91, 73, 110, 102, 111, 93, 71, 79, 69, 83, 32, 84, 79, 32, 85, 80, 80,
         69, 82, 32, 67, 65, 83, 69, 10>>   \* [Info]GOES TO UPPER CASE
    \o <<91, 73, 110, 102, 111, 93, 103, 111, 101, 115, 32, 116, 111, 32, 108,
         111, 119, 101, 114, 32, 99, 97, 115, 101, 10>>  \* [Info]goes to lower case

\* C4: a run of main() writes the seven lines of the transcript to std::cout
\* in that order and nothing else anywhere, constructs exactly one Logger, on
\* std::cout, after the greeting and before the first log call, and exits 0.
C4_Transcript ==
    prog = "app" =>
        /\ IsPrefix(sink["cout"], Expected)
        /\ sink["oss"] = <<>>
        /\ pc = "exited" =>
              /\ sink["cout"] = Expected
              /\ exit = <<0>>
              /\ {l \in Loggers : _log[l] # NoSink} = {"logger"}
        /\ pc # "exited" => exit = <<>>
        /\ \A l \in Loggers : _log[l] \in {NoSink, "cout"}
        /\ _log["logger"] = NoSink =>
              /\ sink["cout"] \in {<<>>, SubSeq(Expected, 1, 12)}
              /\ \A i \in DOMAIN trace : trace[i].logger = "caller"
        /\ _log["logger"] # NoSink => IsPrefix(SubSeq(Expected, 1, 12), sink["cout"])

\* main() has returned.
C4_Witness ==
    prog = "app" /\ pc = "exited" /\ Len(trace) = 7

\* C5: for a text value v of ASCII chars, format_upper_case of
\* format_lower_case(v) equals format_upper_case(v).
C5_UpperOfLower ==
    (ret.fn = "lower" /\ IsAscii(ret.arg)) =>
        format_upper_case(ret.result, ret.loc) = format_upper_case(ret.arg, ret.loc)

\* format_lower_case returned for an ASCII value that mixes cases.
C5_Witness ==
    /\ ret.fn = "lower"
    /\ ret.arg = <<65, 97>>
    /\ ret.loc = "Latin1"

\* C6: format_upper_case applied to its own result returns that result.
C6_UpperIdempotent ==
    ret.fn = "upper" => format_upper_case(ret.result, ret.loc) = ret.result

\* format_upper_case returned a value it had to change, Latin-1 letter included.
C6_Witness ==
    /\ ret.fn = "upper"
    /\ ret.arg = <<97, 233>>
    /\ ret.result = <<65, 201>>

\* C7: a text value of chars without case (digits, punctuation, spaces) is
\* returned unchanged by format_lower_case and by format_upper_case.
C7_NoCaseUnchanged ==
    (ret.fn \in {"lower", "upper"} /\ \A i \in DOMAIN ret.arg : HasNoCase(ret.arg[i])) =>
        /\ ret.result = ret.arg
        /\ format_lower_case(ret.arg, ret.loc) = ret.arg
        /\ format_upper_case(ret.arg, ret.loc) = ret.arg

\* format_upper_case returned for "!1".
C7_Witness ==
    /\ ret.fn = "upper"
    /\ ret.arg = <<33, 49>>
    /\ ret.loc = "Latin1"

\* A step that is a formatter call.
IsCall == ret'.id # ret.id
\* The call made by this step has the function and argument of the one before.
SameCallAgain == IsCall /\ ret'.fn = ret.fn /\ ret'.arg = ret.arg

\* C8 as stated: whatever the process-wide settings, the global locale
\* included, a formatter called again with the same argument returns the same
\* result, and a call changes no sink, no Logger and no global setting.
C8_Pure ==
    [][/\ IsCall => UNCHANGED <<sink, _log, ctorArg, globalLocale, trace, before>>
       /\ SameCallAgain => ret'.result = ret.result]_vars

\* C8 amended: the result is a function of the argument and of the global
\* locale at the call: called again with the same argument under the same
\* global locale a formatter returns the same result; a call changes no
\* sink, no Logger and no global setting.
C8_PureGivenLocale ==
    [][/\ IsCall => /\ UNCHANGED <<sink, _log, ctorArg, globalLocale, trace, before>>
                    /\ ret'.loc = globalLocale
       /\ (SameCallAgain /\ ret'.loc = ret.loc) => ret'.result = ret.result]_vars

\* A second or later call, under the Latin-1 locale, that changed its argument.
C8_Witness ==
    /\ ret.fn = "upper"
    /\ ret.id = 0
    /\ ret.loc = "Latin1"
    /\ ret.arg = <<233>>
    /\ ret.result = <<201>>

\* C9: in every state the sink a Logger refers to is the one it was
\* constructed with, no step changes it once the Logger is constructed, and
\* a call writes to that sink and leaves every other sink as it was.
C9_Immutable ==
    /\ [](\A l \in Loggers : _log[l] = ctorArg[l])
    /\ [][/\ \A l \in Loggers : _log[l] # NoSink => _log'[l] = _log[l]
          /\ trace' # trace =>
                LET e == trace'[Len(trace')]
                IN e.logger \in Loggers =>
                      /\ e.sink = ctorArg[e.logger]
                      /\ sink'[e.sink] # sink[e.sink]
                      /\ IsPrefix(sink[e.sink], sink'[e.sink])
                      /\ \A s \in Sinks \ {e.sink} : sink'[s] = sink[s]]_vars

\* Two Loggers on two different sinks, each of which has been written to.
C9_Witness ==
    /\ _log["logger"] = "oss"
    /\ _log["logger2"] = "cout"
    /\ sink["oss"] # <<>>
    /\ sink["cout"] # <<>>
    /\ LastIsCall /\ Last.level = "Info"

\* The formatter of the last call, and its mapping of one char.
F(fn, v, loc) ==
    IF fn = "lower" THEN format_lower_case(v, loc) ELSE format_upper_case(v, loc)
MapChar(fn, c, loc) ==
    IF fn = "lower" THEN tolower(c, loc) ELSE toupper(c, loc)

\* C10: each formatter maps the chars one by one: the result has the length
\* of the argument, its i-th char is the mapping of the argument's i-th char,
\* f(a \o b) = f(a) \o f(b) for every split of the argument, and f of the
\* empty text is empty.
C10_CharByChar ==
    ret.fn \in {"lower", "upper"} =>
        /\ Len(ret.result) = Len(ret.arg)
        /\ \A i \in DOMAIN ret.arg : ret.result[i] = MapChar(ret.fn, ret.arg[i], ret.loc)
        /\ \A k \in 0..Len(ret.arg) :
              ret.result = F(ret.fn, SubSeq(ret.arg, 1, k), ret.loc)
                           \o F(ret.fn, After(ret.arg, k), ret.loc)
        /\ F(ret.fn, <<>>, ret.loc) = <<>>

\* format_upper_case returned for a value of two lower case letters.
C10_Witness ==
    /\ ret.fn = "upper"
    /\ ret.arg = <<97, 97>>


=============================================================================
